---- MODULE Spec2Model ----
(***************************************************************************)
(* A model of fakesnow's FakeSnowflakeConnection / FakeSnowflakeCursor     *)
(* (src/fakesnow/fakes.py): the session context kept on the connection,    *)
(* the DuckDB catalog with the information_schema extension tables, and    *)
(* the handlers execute, describe and executemany.                         *)
(***************************************************************************)
EXTENDS Integers, Sequences, FiniteSets, TLC

VARIABLES
    conn,   \* FakeSnowflakeConnection: database, schema, database_set, schema_set
    duck,   \* the DuckDB connection: catalogs, schemata, tables, extension objects
    ret,    \* what the last call did: the error raised, the engine calls, ...
    twin    \* a second session, given one execute per parameter set

vars == <<conn, duck, ret, twin>>

(***************************************************************************)
(* Bounds of the model.                                                    *)
(***************************************************************************)
MaxParams == 1          \* longest positional parameter set
MaxBatch == 2           \* longest seqparams of executemany
MaxCommentLen == 2      \* longest table comment, in characters
MaxCols == 2            \* most columns in a DESCRIBE result

(***************************************************************************)
(* Python values.                                                          *)
(***************************************************************************)
None == "None"

\* Upper leaving the identifier as it was given
UpperAsGiven(s) == s

\* str.upper() on the identifiers the model uses
Upper(s) ==
    CASE s = "db1" -> "DB1"
      [] s = "db2" -> "DB2"
      [] s = "s1" -> "S1"
      [] s = "t1" -> "T1"
      [] s = "main" -> "MAIN"
      [] OTHER -> s

\* x and x.upper()
AndUpper(s) == IF s = None THEN None ELSE Upper(s)

\* a or b, for names where "" and None are falsy
Or(a, b) == IF a = "" \/ a = None THEN b ELSE a

\* the truth value of a name: None and "" are falsy
Present(s) == s # None /\ s # ""

Min(a, b) == IF a <= b THEN a ELSE b

\* all sequences over S of length lo..hi
SeqsOf(S, lo, hi) == UNION {[1..n -> S] : n \in lo..hi}

(***************************************************************************)
(* The DuckDB connection.  catalogs: attached databases; schemata:         *)
(* <<catalog, schema>>; tables: <<catalog, schema, table>>; ext: the       *)
(* information_schema extension objects <<catalog, object>>; tables_ext    *)
(* and columns_ext: the rows of the extension tables of all catalogs;      *)
(* schema: the engine's current <<catalog, schema>> (SET schema).          *)
(* The engine's identifiers are case-insensitive: they are kept here in    *)
(* upper case.                                                             *)
(***************************************************************************)
EmptyDuck ==
    [catalogs |-> {"MEMORY"},
     schemata |-> {<<"MEMORY", "MAIN">>},
     tables |-> {},
     ext |-> {},
     tables_ext |-> {},
     columns_ext |-> {},
     schema |-> <<"MEMORY", "MAIN">>]

\* the outcome of one engine call
Ok(d) == [exc |-> "none", duck |-> d]
Fail(kind, d) == [exc |-> kind, duck |-> d]

\* ATTACH DATABASE ':memory:' AS name
Attach(d, name) ==
    IF name \in d.catalogs
    THEN Fail("BinderException", d)
    ELSE Ok([d EXCEPT !.catalogs = @ \cup {name},
                      !.schemata = @ \cup {<<name, "MAIN">>}])

\* CREATE SCHEMA catalog.schema
CreateSchema(d, catalog, schema) ==
    IF catalog \notin d.catalogs \/ <<catalog, schema>> \in d.schemata
    THEN Fail("CatalogException", d)
    ELSE Ok([d EXCEPT !.schemata = @ \cup {<<catalog, schema>>}])

\* SET schema = 'catalog.schema'
SetSchema(d, catalog, schema) ==
    IF <<catalog, schema>> \notin d.schemata
    THEN Fail("CatalogException", d)
    ELSE Ok([d EXCEPT !.schema = <<catalog, schema>>])

\* create table / create view ${catalog}.information_schema.<obj>
CreateExtObject(d, catalog, obj) ==
    IF catalog \notin d.catalogs \/ <<catalog, obj>> \in d.ext
    THEN Fail("CatalogException", d)
    ELSE Ok([d EXCEPT !.ext = @ \cup {<<catalog, obj>>}])

ExtObjects == <<"tables_ext", "columns_ext", "columns_snowflake">>

\* FakeSnowflakeConnection._create_info_schema_ext: three statements, the
\* first failure ends the call and keeps what the earlier ones created
RECURSIVE CreateExtFrom(_, _, _)
CreateExtFrom(d, catalog, i) ==
    IF i > Len(ExtObjects)
    THEN Ok(d)
    ELSE LET r == CreateExtObject(d, catalog, ExtObjects[i])
         IN  IF r.exc # "none" THEN r ELSE CreateExtFrom(r.duck, catalog, i + 1)

\* _create_info_schema_ext making the table of comments only
CreateTablesExtOnly(d, catalog) == CreateExtObject(d, catalog, "tables_ext")

_create_info_schema_ext(d, catalog) == CreateExtFrom(d, catalog, 1)

(***************************************************************************)
(* FakeSnowflakeConnection.__init__                                        *)
(***************************************************************************)
NewConn(database, schema) ==
    [database |-> AndUpper(database),
     schema |-> AndUpper(schema),
     database_set |-> FALSE,
     schema_set |-> FALSE]

\* select * from information_schema.schemata where catalog_name = ...
HasCatalog(d, catalog) == \E s \in d.schemata : s[1] = catalog
HasSchema(d, catalog, schema) == <<catalog, schema>> \in d.schemata

Connect(d0, database, schema, create_database, create_schema) ==
    LET c0 == NewConn(database, schema)
        db == c0.database
        sch == c0.schema
        \* create database if needed
        attach == create_database /\ Present(db) /\ ~HasCatalog(d0, db)
        r1 == IF attach
              THEN LET a == Attach(d0, db)
                   IN  IF a.exc # "none" THEN a
                       ELSE _create_info_schema_ext(a.duck, db)
              ELSE Ok(d0)
        \* create schema if needed
        r2 == IF r1.exc # "none" THEN r1
              ELSE IF create_schema /\ Present(db) /\ Present(sch)
                      /\ ~HasSchema(r1.duck, db, sch)
              THEN CreateSchema(r1.duck, db, sch)
              ELSE r1
        d2 == r2.duck
        \* the catalog this call attached, None when it attached none
        attached == IF attach /\ r1.exc = "none" THEN db ELSE None
    IN  IF r2.exc # "none"
        THEN [ok |-> FALSE, conn |-> c0, duck |-> d2, attached |-> attached]
        ELSE IF Present(db) /\ Present(sch) /\ HasSchema(d2, db, sch)
        THEN [ok |-> TRUE,
              conn |-> [c0 EXCEPT !.database_set = TRUE, !.schema_set = TRUE],
              duck |-> SetSchema(d2, db, sch).duck, attached |-> attached]
        ELSE IF Present(db) /\ HasCatalog(d2, db)
        THEN [ok |-> TRUE,
              conn |-> [c0 EXCEPT !.database_set = TRUE],
              duck |-> SetSchema(d2, db, "MAIN").duck, attached |-> attached]
        ELSE [ok |-> TRUE, conn |-> c0, duck |-> d2, attached |-> attached]

(***************************************************************************)
(* Statements.  A command is the parsed form of a SQL text of one of the   *)
(* kinds below; placeholders counts its "%s" marks and qmarks its "?"      *)
(* marks; binds says whether the engine's binder accepts its expressions;  *)
(* parsed tells an exp.Expression from a SQL text.                         *)
(***************************************************************************)
NoTable == [catalog |-> "", db |-> "", name |-> ""]

Stmt(kind, ident, table, replace, has_comment, comment, text_lengths, placeholders, binds) ==
    [kind |-> kind, ident |-> ident, table |-> table, replace |-> replace,
     has_comment |-> has_comment, comment |-> comment,
     text_lengths |-> text_lengths, placeholders |-> placeholders, binds |-> binds,
     qmarks |-> 0, parsed |-> FALSE]

\* [catalog.][schema.]T1, in the spellings a caller may use
TableRefs ==
    {[catalog |-> q[1], db |-> q[2], name |-> q[3]] :
        q \in {<<"", "", "t1">>, <<"", "s1", "T1">>, <<"db1", "S1", "T1">>,
               <<"DB2", "main", "T1">>}}

UseStatements ==
    {Stmt("USE DATABASE", i, NoTable, FALSE, FALSE, <<>>, <<>>, 0, TRUE) :
        i \in {"db1", "DB2"}}
    \cup {Stmt("USE SCHEMA", "s1", NoTable, FALSE, FALSE, <<>>, <<>>, 0, TRUE)}

CreateDatabaseStatements ==
    {Stmt("CREATE DATABASE", i, NoTable, FALSE, FALSE, <<>>, <<>>, 0, TRUE) :
        i \in {"db1", "db2"}}

SelectStatements ==
    {Stmt("SELECT", "", t, FALSE, FALSE, <<>>, <<>>, nb[1], nb[2]) :
        t \in TableRefs \cup {NoTable},
        nb \in {<<0, TRUE>>, <<1, TRUE>>, <<0, FALSE>>}}

\* the characters of a comment: a letter and the quote
CommentChars == {"a", "'"}
Comments == SeqsOf(CommentChars, 1, MaxCommentLen)

\* VARCHAR(n) sizes below and above the point where n*4 passes the cap
Sizes == {50, 4194304, 4194305}
TextLengths ==
    {<< <<"C1", n>> >> : n \in Sizes}
    \cup {<< <<"C1", n>>, <<"C2", m>> >> : n \in Sizes, m \in {50}}

CreateTable(t, replace, has_comment, comment, text_lengths) ==
    Stmt("CREATE TABLE", "", t, replace, has_comment, comment, text_lengths, 0, TRUE)

\* CREATE [OR REPLACE] TABLE without a comment or a sized column
PlainCreateTables ==
    {CreateTable(t, r, FALSE, <<>>, <<>>) : t \in TableRefs, r \in BOOLEAN}

\* the references of the tables created with a comment or a sized column
StoreRefs == {t \in TableRefs : t.db = "" \/ t.catalog = "db1"}

\* ... COMMENT = '<comment>'
CommentCreateTables ==
    {CreateTable(t, r, TRUE, c, <<>>) :
        t \in StoreRefs, r \in BOOLEAN, c \in Comments}

\* ... (C1 VARCHAR(n), ...)
SizedCreateTables ==
    {CreateTable(t, r, FALSE, <<>>, l) :
        t \in StoreRefs, r \in BOOLEAN, l \in TextLengths}

(***************************************************************************)
(* Parameters: None, a positional sequence, or a dictionary (vals are its  *)
(* keys).                                                                  *)
(***************************************************************************)
NoParams == [tag |-> "none", vals |-> <<>>]
SeqParams == {[tag |-> "seq", vals |-> v] : v \in SeqsOf({"v"}, 0, MaxParams)}
DictParams == {[tag |-> "dict", vals |-> <<"k">>]}
Params == {NoParams} \cup SeqParams \cup DictParams

\* isinstance(params, dict)
IsDict(params) == params.tag = "dict"
\* the truth value of params
Truthy(params) == Len(params.vals) > 0

\* engine messages: characters and line breaks
Msgs == {<<"e">>, <<"e", "\n", "e">>}

(***************************************************************************)
(* The passes of the pipeline that the handlers' state depends on          *)
(* (fakesnow.expr, fakesnow.checks, fakesnow.transforms).                  *)
(***************************************************************************)
\* sqlglot.parse_one: a text that still holds "%s" marks does not parse
parse_one(command) ==
    IF command.placeholders > 0
    THEN [exc |-> "ParseError", expression |-> command]
    ELSE [exc |-> "none", expression |-> [command EXCEPT !.parsed = TRUE]]

\* transforms.as_describe: DESCRIBE <statement>
as_describe(e) == [e EXCEPT !.kind = "DESCRIBE"]

\* expr.key_command
key_command(e) == e.kind

\* checks.is_unqualified_table_expression: <<no_database, no_schema>>
is_unqualified_table_expression(e) ==
    IF e.table = NoTable
    THEN <<FALSE, FALSE>>
    ELSE <<e.table.catalog = "", e.table.db = "">>

\* the passes of the transform chain of execute, in the order of the chain
Passes ==
    <<"upper_case_unquoted_identifiers", "set_schema", "create_database",
      "extract_comment", "information_schema_columns_snowflake",
      "information_schema_tables_ext", "drop_schema_cascade", "tag", "regex",
      "semi_structured_types", "parse_json", "indices_to_array",
      "indices_to_object", "values_columns", "to_date", "object_construct",
      "timestamp_ntz_ns", "float_to_double", "integer_precision",
      "extract_text_length">>

\* the transform chain of execute: identifiers upper-cased, USE turned into
\* SET schema, CREATE DATABASE into ATTACH, and the annotations
\* create_db_name, table_comment and text_lengths attached to the result
Transform(e, current_database) ==
    LET table == [catalog |-> Upper(e.table.catalog), db |-> Upper(e.table.db),
                  name |-> Upper(e.table.name)]
        ident == Upper(e.ident)
    IN  [kind |-> e.kind,
         ident |-> ident,
         table |-> table,
         replace |-> e.replace,
         binds |-> e.binds,
         qmarks |-> e.qmarks,
         set_schema |->
            IF e.kind = "USE DATABASE" THEN <<ident, "MAIN">>
            ELSE IF e.kind = "USE SCHEMA" THEN <<current_database, ident>>
            ELSE <<>>,
         create_db_name |-> IF e.kind = "CREATE DATABASE" THEN ident ELSE None,
         has_table_comment |-> e.kind = "CREATE TABLE" /\ e.has_comment,
         table_comment |-> IF e.kind = "CREATE TABLE" /\ e.has_comment
                           THEN e.comment ELSE <<>>,
         text_lengths |-> IF e.kind = "CREATE TABLE" THEN e.text_lengths ELSE <<>>]

(***************************************************************************)
(* The engine's answer to the statement of a call:                         *)
(* self._duck_conn.execute(sql, params).                                   *)
(***************************************************************************)
\* the table a reference names, resolved against the engine's current schema
Resolve(d, table) ==
    <<Or(table.catalog, d.schema[1]), Or(table.db, d.schema[2]), table.name>>

\* the failure of binding the statement, or "none"
BindFailure(d, t) ==
    LET key == Resolve(d, t.table)
    IN  CASE t.kind \in {"USE DATABASE", "USE SCHEMA"} ->
                IF t.set_schema \in d.schemata THEN "none" ELSE "CatalogException"
          [] t.kind = "CREATE DATABASE" ->
                IF t.ident \in d.catalogs THEN "BinderException" ELSE "none"
          [] t.kind = "CREATE TABLE" ->
                IF <<key[1], key[2]>> \notin d.schemata THEN "CatalogException"
                ELSE IF key \in d.tables /\ ~t.replace THEN "CatalogException"
                ELSE "none"
          [] OTHER -> \* SELECT, DESCRIBE SELECT
                IF t.table # NoTable /\ key \notin d.tables THEN "CatalogException"
                ELSE IF ~t.binds THEN "BinderException"
                ELSE "none"

\* what the statement does to the engine once bound
Effect(d, t) ==
    CASE t.kind \in {"USE DATABASE", "USE SCHEMA"} -> [d EXCEPT !.schema = t.set_schema]
      [] t.kind = "CREATE DATABASE" -> Attach(d, t.ident).duck
      [] t.kind = "CREATE TABLE" -> [d EXCEPT !.tables = @ \cup {Resolve(d, t.table)}]
      [] OTHER -> d

\* the values given must be as many as the "?" marks of the sql
EngineExecute(d, t, params) ==
    LET b == BindFailure(d, t)
    IN  IF b # "none" THEN Fail(b, d)
        ELSE IF Len(params.vals) # t.qmarks THEN Fail("InvalidInputException", d)
        ELSE Ok(Effect(d, t))

(***************************************************************************)
(* The writes to the Catalog Extension Store.                              *)
(***************************************************************************)
\* the engine reading a string literal: s are the characters after the
\* opening quote; '' inside the literal is one quote, a single ' ends it
RECURSIVE ReadString(_, _)
ReadString(s, acc) ==
    IF s = <<>>
    THEN [ok |-> FALSE, value |-> acc, rest |-> <<>>]
    ELSE IF Head(s) # "'"
    THEN ReadString(Tail(s), Append(acc, Head(s)))
    ELSE IF Len(s) >= 2 /\ s[2] = "'"
    THEN ReadString(Tail(Tail(s)), Append(acc, "'"))
    ELSE [ok |-> TRUE, value |-> acc, rest |-> Tail(s)]

\* the last value of  values (..., '{comment}')  as the engine reads it
CommentLiteral(comment) ==
    LET r == ReadString(comment \o <<"'", ")">>, <<>>)
    IN  [ok |-> r.ok /\ r.rest = <<")">>, value |-> r.value]

\* INSERT INTO {catalog}.information_schema.tables_ext values (...)
\* ON CONFLICT (catalog, schema, table) DO UPDATE SET comment = excluded.comment
InsertTablesExt(d, catalog, schema, name, comment) ==
    LET lit == CommentLiteral(comment)
        row == [ext_table_catalog |-> catalog, ext_table_schema |-> schema,
                ext_table_name |-> name, comment |-> lit.value]
        Same(r) == /\ r.ext_table_catalog = catalog
                   /\ r.ext_table_schema = schema
                   /\ r.ext_table_name = name
    IN  IF ~lit.ok THEN Fail("ParserException", d)
        ELSE IF <<catalog, "tables_ext">> \notin d.ext THEN Fail("CatalogException", d)
        ELSE IF \E r \in d.tables_ext : Same(r)
        THEN Ok([d EXCEPT !.tables_ext =
                    {IF Same(r) THEN [r EXCEPT !.comment = row.comment] ELSE r : r \in @}])
        ELSE Ok([d EXCEPT !.tables_ext = @ \cup {row}])

\* OctetLength without the cap at the largest VARCHAR
OctetLengthUncapped(size) == size * 4

\* ext_character_octet_length of a column of size characters
OctetLength(size) == Min(size * 4, 16777216)

\* one row of the values list of the columns_ext insert
ColumnRow(catalog, schema, name, col_name, size) ==
    [ext_table_catalog |-> catalog, ext_table_schema |-> schema,
     ext_table_name |-> name, ext_column_name |-> col_name,
     ext_character_maximum_length |-> size,
     ext_character_octet_length |-> OctetLength(size)]

\* UpsertColumn without the ON CONFLICT clause and the primary key
UpsertColumnAppend(rows, row) == rows \cup {row}

\* a row put into columns_ext: ON CONFLICT (catalog, schema, table, column)
\* DO UPDATE SET the two lengths
UpsertColumn(rows, row) ==
    LET Same(r) == /\ r.ext_table_catalog = row.ext_table_catalog
                   /\ r.ext_table_schema = row.ext_table_schema
                   /\ r.ext_table_name = row.ext_table_name
                   /\ r.ext_column_name = row.ext_column_name
    IN  IF \E r \in rows : Same(r)
        THEN {IF Same(r)
              THEN [r EXCEPT
                      !.ext_character_maximum_length = row.ext_character_maximum_length,
                      !.ext_character_octet_length = row.ext_character_octet_length]
              ELSE r : r \in rows}
        ELSE rows \cup {row}

RECURSIVE UpsertColumns(_, _, _, _, _, _)
UpsertColumns(rows, catalog, schema, name, text_lengths, i) ==
    IF i > Len(text_lengths)
    THEN rows
    ELSE UpsertColumns(
            UpsertColumn(rows, ColumnRow(catalog, schema, name,
                                         text_lengths[i][1], text_lengths[i][2])),
            catalog, schema, name, text_lengths, i + 1)

\* INSERT INTO {catalog}.information_schema.columns_ext values (...), (...)
InsertColumnsExt(d, catalog, schema, name, text_lengths) ==
    IF <<catalog, "columns_ext">> \notin d.ext
    THEN Fail("CatalogException", d)
    ELSE Ok([d EXCEPT !.columns_ext =
                UpsertColumns(@, catalog, schema, name, text_lengths, 1)])

(***************************************************************************)
(* FakeSnowflakeCursor.execute                                             *)
(***************************************************************************)
\* FakeSnowflakeCursor._rewrite_params
_rewrite_params(command, params) ==
    IF IsDict(params)
    THEN [exc |-> "NotImplementedError", command |-> command]
    ELSE IF Truthy(params)
    THEN \* self._conn._paramstyle is "pyformat": command.replace("%s", "?")
         [exc |-> "none",
          command |-> [command EXCEPT !.placeholders = 0,
                                      !.qmarks = @ + command.placeholders]]
    ELSE [exc |-> "none", command |-> command]

\* SessionCheck testing the current database name in place of database_set
SessionCheckByName(c, no_database, no_schema) ==
    IF no_database /\ c.database = None THEN 90105
    ELSE IF no_schema /\ ~c.schema_set THEN 90106
    ELSE 0

\* SessionCheck without its second branch
SessionCheckDatabaseOnly(c, no_database, no_schema) ==
    IF no_database /\ ~c.database_set THEN 90105
    ELSE 0

\* SessionCheck testing the schema before the database
SessionCheckSchemaFirst(c, no_database, no_schema) ==
    IF no_schema /\ ~c.schema_set THEN 90106
    ELSE IF no_database /\ ~c.database_set THEN 90105
    ELSE 0

\* the errno of the session-context error execute raises, 0 when it raises none
SessionCheck(c, no_database, no_schema) ==
    IF no_database /\ ~c.database_set THEN 90105
    ELSE IF no_schema /\ ~c.schema_set THEN 90106
    ELSE 0

\* str.split("\n")[0]
FirstLine(msg) ==
    LET breaks == {i \in 1..Len(msg) : msg[i] = "\n"}
    IN  IF breaks = {} THEN msg
        ELSE SubSeq(msg, 1, (CHOOSE i \in breaks : \A j \in breaks : i <= j) - 1)

\* Translate with the codes of the two except clauses exchanged
TranslateSwapped(exc, msg) ==
    CASE exc = "BinderException" ->
            [exc |-> "ProgrammingError", errno |-> 2003, sqlstate |-> "42S02", msg |-> msg]
      [] exc = "CatalogException" ->
            [exc |-> "ProgrammingError", errno |-> 2043, sqlstate |-> "02000",
             msg |-> FirstLine(msg)]
      [] OTHER ->
            [exc |-> exc, errno |-> 0, sqlstate |-> "", msg |-> msg]

\* the except clauses around self._duck_conn.execute(sql, params): what the
\* caller gets for an engine exception of class exc with message msg
Translate(exc, msg) ==
    CASE exc = "BinderException" ->
            [exc |-> "ProgrammingError", errno |-> 2043, sqlstate |-> "02000", msg |-> msg]
      [] exc = "CatalogException" ->
            [exc |-> "ProgrammingError", errno |-> 2003, sqlstate |-> "42S02",
             msg |-> FirstLine(msg)]
      [] OTHER ->
            [exc |-> exc, errno |-> 0, sqlstate |-> "", msg |-> msg]

\* the record of one call: the connection and the engine after it, the
\* exception the caller sees (exc, errno, sqlstate, msg), the exception the
\* engine raised for the statement (engine_exc, engine_msg) or for a write to
\* the extension store (ext_exc), the number of engine calls made for the
\* statement (calls) and for extension-store rows (ext_calls), the passes
\* the statement went through, and the annotations consumed with the table
\* key they were written under
Outcome(w) ==
    [conn |-> w.conn, duck |-> w.duck,
     cmd |-> "", no_database |-> FALSE, no_schema |-> FALSE, passes |-> <<>>,
     exc |-> "none", errno |-> 0, sqlstate |-> "", msg |-> <<>>,
     engine_exc |-> "none", engine_msg |-> <<>>, ext_exc |-> "none",
     calls |-> 0, ext_calls |-> 0,
     create_db_name |-> None, has_table_comment |-> FALSE, table_comment |-> <<>>,
     text_lengths |-> <<>>, catalog |-> None, schema |-> None, name |-> None]

\* UseContext setting the database for a statement of any kind that names one
UseContextAnyCommand(c, cmd, ident) ==
    IF ident # ""
    THEN [c EXCEPT !.database = Upper(ident), !.database_set = TRUE]
    ELSE c

\* UseContext setting the flag of a USE without storing the identifier
UseContextFlagOnly(c, cmd, ident) ==
    LET c1 == IF cmd = "USE DATABASE" THEN [c EXCEPT !.database_set = TRUE] ELSE c
    IN  IF cmd = "USE SCHEMA" THEN [c1 EXCEPT !.schema_set = TRUE] ELSE c1

\* UseContext whose USE DATABASE also forgets the current schema
UseContextResetSchema(c, cmd, ident) ==
    LET c1 == IF cmd = "USE DATABASE"
              THEN [c EXCEPT !.database = Upper(ident), !.database_set = TRUE,
                             !.schema = None, !.schema_set = FALSE]
              ELSE c
    IN  IF cmd = "USE SCHEMA"
        THEN [c1 EXCEPT !.schema = Upper(ident), !.schema_set = TRUE]
        ELSE c1

\* the session context after a statement the engine ran: USE DATABASE and
\* USE SCHEMA store the upper-cased identifier and set the flag
UseContext(c, cmd, ident) ==
    LET c1 == IF cmd = "USE DATABASE"
              THEN [c EXCEPT !.database = Upper(ident), !.database_set = TRUE]
              ELSE c
    IN  IF cmd = "USE SCHEMA"
        THEN [c1 EXCEPT !.schema = Upper(ident), !.schema_set = TRUE]
        ELSE c1

\* RaiseExt giving the exception to the except clauses of the statement
RaiseExtTranslated(out, d, exc, m) ==
    LET t == Translate(exc, m)
    IN  [out EXCEPT !.duck = d, !.exc = t.exc, !.errno = t.errno,
                    !.sqlstate = t.sqlstate, !.msg = t.msg, !.ext_exc = exc]

\* an engine exception of a write to the extension store leaves execute as it is
RaiseExt(out, d, exc, m) ==
    [out EXCEPT !.duck = d, !.exc = exc, !.msg = m, !.ext_exc = exc]

\* the part of execute after the engine has run the statement
AfterExecute(out, d, expression, transformed, m) ==
    LET cmd == out.cmd
        \* USE DATABASE / USE SCHEMA
        c2 == UseContext(out.conn, cmd, expression.ident)
        o2 == [out EXCEPT !.conn = c2, !.duck = d]
        \* create_db_name
        r3 == IF transformed.create_db_name # None
              THEN _create_info_schema_ext(d, transformed.create_db_name)
              ELSE Ok(d)
        o3 == [o2 EXCEPT !.create_db_name = transformed.create_db_name]
        \* table_comment, text_lengths
        table == transformed.table
        catalog == Or(table.catalog, c2.database)
        schema == Or(table.db, c2.schema)
        r4 == IF transformed.has_table_comment
              THEN InsertTablesExt(r3.duck, catalog, schema, table.name,
                                   transformed.table_comment)
              ELSE Ok(r3.duck)
        o4 == IF transformed.has_table_comment
              THEN [o3 EXCEPT !.has_table_comment = TRUE,
                              !.table_comment = transformed.table_comment,
                              !.catalog = catalog, !.schema = schema,
                              !.name = table.name, !.ext_calls = @ + 1]
              ELSE o3
        lengths == Len(transformed.text_lengths) > 0 /\ table # NoTable
        r5 == IF lengths
              THEN InsertColumnsExt(r4.duck, catalog, schema, table.name,
                                    transformed.text_lengths)
              ELSE Ok(r4.duck)
        o5 == IF lengths
              THEN [o4 EXCEPT !.text_lengths = transformed.text_lengths,
                              !.catalog = catalog, !.schema = schema,
                              !.name = table.name, !.ext_calls = @ + 1]
              ELSE o4
    IN  IF r3.exc # "none" THEN RaiseExt(o3, r3.duck, r3.exc, m)
        ELSE IF r4.exc # "none" THEN RaiseExt(o4, r4.duck, r4.exc, m)
        ELSE IF r5.exc # "none" THEN RaiseExt(o5, r5.duck, r5.exc, m)
        ELSE [o5 EXCEPT !.duck = r5.duck]

\* the record of a statement the engine raised exc for
EngineFailure(out, exc, m) ==
    LET t == Translate(exc, m)
    IN  [out EXCEPT !.exc = t.exc, !.errno = t.errno, !.sqlstate = t.sqlstate,
                    !.msg = t.msg, !.engine_exc = exc, !.engine_msg = m]

\* AfterEngine storing the session context of a USE before the engine's answer
AfterEngineUseFirst(out, r, expression, transformed, m) ==
    IF r.exc # "none"
    THEN [EngineFailure(out, r.exc, m) EXCEPT
            !.conn = UseContext(out.conn, out.cmd, expression.ident)]
    ELSE AfterExecute(out, r.duck, expression, transformed, m)

\* AfterEngine consuming the annotations whatever the engine's answer
AfterEngineConsumeOnFailure(out, r, expression, transformed, m) ==
    IF r.exc # "none"
    THEN LET a == AfterExecute(out, r.duck, expression, transformed, m)
         IN  [EngineFailure(out, r.exc, m) EXCEPT !.duck = a.duck]
    ELSE AfterExecute(out, r.duck, expression, transformed, m)

\* execute from the engine's answer r on: the except clauses, then the part
\* after them
AfterEngine(out, r, expression, transformed, m) ==
    IF r.exc # "none"
    THEN EngineFailure(out, r.exc, m)
    ELSE AfterExecute(out, r.duck, expression, transformed, m)

\* execute(command, params) in the state w = [conn, duck]; m is the message
\* the engine gives if it raises
Exec(w, command, params, m) ==
    LET out == Outcome(w)
        rw == IF command.parsed
              THEN [exc |-> "none", command |-> command]
              ELSE _rewrite_params(command, params)
        p == IF command.parsed
             THEN [exc |-> "none", expression |-> command]
             ELSE parse_one(rw.command)
        expression == p.expression
        cmd == key_command(expression)
        u == is_unqualified_table_expression(expression)
        o1 == [out EXCEPT !.cmd = cmd, !.no_database = u[1], !.no_schema = u[2]]
        errno == SessionCheck(w.conn, u[1], u[2])
        transformed == Transform(expression, w.conn.database)
        r == EngineExecute(w.duck, transformed, params)
        o2 == [o1 EXCEPT !.calls = 1, !.passes = Passes]
    IN  IF rw.exc # "none"
        THEN [out EXCEPT !.exc = rw.exc, !.msg = <<"dict params not supported yet">>]
        ELSE IF p.exc # "none"
        THEN [out EXCEPT !.exc = p.exc]
        ELSE IF errno # 0
        THEN [o1 EXCEPT !.exc = "ProgrammingError", !.errno = errno,
                        !.sqlstate = "22000",
                        !.msg = <<"Cannot perform", cmd>>]
        ELSE AfterEngine(o2, r, expression, transformed, m)

(***************************************************************************)
(* FakeSnowflakeCursor.executemany                                         *)
(***************************************************************************)
\* seqparams: a sequence of parameter sets, or a dictionary
Batches ==
    {[tag |-> "seq", sets |-> b] : b \in SeqsOf(Params, 0, MaxBatch)}
    \cup {[tag |-> "dict", sets |-> <<>>]}

\* for p in seqparams: self.execute(command, p), from the i-th set on; last is
\* the record of the call before; an exception ends the loop
RECURSIVE ForEach(_, _, _, _, _, _)
ForEach(w, command, sets, i, m, last) ==
    IF i > Len(sets)
    THEN last
    ELSE LET o == Exec(w, command, sets[i], m)
         IN  IF o.exc # "none"
             THEN o
             ELSE ForEach([conn |-> o.conn, duck |-> o.duck], command, sets, i + 1, m, o)

\* ForEach going on to the next parameter set after an exception
RECURSIVE ForEachKeepGoing(_, _, _, _, _, _)
ForEachKeepGoing(w, command, sets, i, m, last) ==
    IF i > Len(sets)
    THEN last
    ELSE LET o == Exec(w, command, sets[i], m)
         IN  ForEachKeepGoing([conn |-> o.conn, duck |-> o.duck], command, sets,
                              i + 1, m, o)

\* executemany carrying on after a failed execute
executemanyKeepGoing(w, command, seqparams, m) ==
    IF seqparams.tag = "dict"
    THEN [Outcome(w) EXCEPT !.exc = "NotImplementedError",
                            !.msg = <<"dict params not supported yet">>]
    ELSE ForEachKeepGoing(w, command, seqparams.sets, 1, m, Outcome(w))

executemany(w, command, seqparams, m) ==
    IF seqparams.tag = "dict"
    THEN [Outcome(w) EXCEPT !.exc = "NotImplementedError",
                            !.msg = <<"dict params not supported yet">>]
    ELSE ForEach(w, command, seqparams.sets, 1, m, Outcome(w))

(***************************************************************************)
(* FakeSnowflakeCursor.describe and _describe_as_result_metadata           *)
(***************************************************************************)
\* column types as DESCRIBE prints them
BIGINT == <<"B", "I", "G", "I", "N", "T">>
INTEGER == <<"I", "N", "T", "E", "G", "E", "R">>
DECIMAL == <<"D", "E", "C", "I", "M", "A", "L">>
DECIMAL_18_3 == DECIMAL \o <<"(", "1", "8", ",", "3", ")">>
DECIMAL_38_0 == DECIMAL \o <<"(", "3", "8", ",", "0", ")">>
DECIMAL_18_3_LIST == DECIMAL_18_3 \o <<"[", "]">>
VARCHAR == <<"V", "A", "R", "C", "H", "A", "R">>
DOUBLE == <<"D", "O", "U", "B", "L", "E">>
BOOLEAN_ == <<"B", "O", "O", "L", "E", "A", "N">>
DATE == <<"D", "A", "T", "E">>
TIMESTAMP == <<"T", "I", "M", "E", "S", "T", "A", "M", "P">>
TIMESTAMP_NS == TIMESTAMP \o <<"_", "N", "S">>
BLOB == <<"B", "L", "O", "B">>

ColumnTypes ==
    {BIGINT, INTEGER, DECIMAL_18_3, DECIMAL_38_0, DECIMAL_18_3_LIST, VARCHAR, DOUBLE,
     BOOLEAN_, DATE, TIMESTAMP, TIMESTAMP_NS, BLOB}

\* the rows DESCRIBE returns, by their column types
DescribeRows == SeqsOf(ColumnTypes, 1, MaxCols)

\* str.startswith
StartsWith(s, prefix) ==
    Len(s) >= Len(prefix) /\ SubSeq(s, 1, Len(prefix)) = prefix

Digits == {"0", "1", "2", "3", "4", "5", "6", "7", "8", "9"}

DigitValue(c) ==
    CASE c = "0" -> 0 [] c = "1" -> 1 [] c = "2" -> 2 [] c = "3" -> 3 [] c = "4" -> 4
      [] c = "5" -> 5 [] c = "6" -> 6 [] c = "7" -> 7 [] c = "8" -> 8 [] c = "9" -> 9

\* int() of a string of digits
RECURSIVE ToInt(_)
ToInt(s) == IF s = <<>> THEN 0 ELSE 10 * ToInt(SubSeq(s, 1, Len(s) - 1)) + DigitValue(s[Len(s)])

\* the last index of the run of digits of s that starts at i (i - 1: no digit)
DigitsEnd(s, i) ==
    CHOOSE j \in (i - 1)..Len(s) :
        /\ \A k \in i..j : s[k] \in Digits
        /\ (j = Len(s) \/ s[j + 1] \notin Digits)

\* re.match of \((\d+),(\d+)\) at index i of s
MatchesAt(s, i) ==
    /\ s[i] = "("
    /\ DigitsEnd(s, i + 1) >= i + 1
    /\ DigitsEnd(s, i + 1) + 1 <= Len(s)
    /\ s[DigitsEnd(s, i + 1) + 1] = ","
    /\ DigitsEnd(s, DigitsEnd(s, i + 1) + 2) >= DigitsEnd(s, i + 1) + 2
    /\ DigitsEnd(s, DigitsEnd(s, i + 1) + 2) + 1 <= Len(s)
    /\ s[DigitsEnd(s, DigitsEnd(s, i + 1) + 2) + 1] = ")"

\* re.search(r'\((\d+),(\d+)\)', s): the two groups of the leftmost match
SearchPrecisionScale(s) ==
    LET hits == {i \in 1..Len(s) : MatchesAt(s, i)}
    IN  IF hits = {}
        THEN [ok |-> FALSE, g1 |-> <<>>, g2 |-> <<>>]
        ELSE LET i == CHOOSE h \in hits : \A j \in hits : h <= j
                 j1 == DigitsEnd(s, i + 1)
                 j2 == DigitsEnd(s, j1 + 2)
             IN  [ok |-> TRUE, g1 |-> SubSeq(s, i + 1, j1), g2 |-> SubSeq(s, j1 + 2, j2)]

\* Python's None where a number may stand
NoneInt == 0 - 1

\* ResultMetadata(type_code, internal_size, precision, scale); display_size is
\* None and is_nullable True in every branch
ResultMetadata(type_code, internal_size, precision, scale) ==
    [exc |-> "none", type_code |-> type_code, internal_size |-> internal_size,
     precision |-> precision, scale |-> scale]

Unsupported ==
    [exc |-> "NotImplementedError", type_code |-> NoneInt, internal_size |-> NoneInt,
     precision |-> NoneInt, scale |-> NoneInt]

as_result_metadata(column_type) ==
    IF column_type = BIGINT
    THEN ResultMetadata(0, NoneInt, 38, 0)
    ELSE IF StartsWith(column_type, DECIMAL)
    THEN LET match == SearchPrecisionScale(column_type)
         IN  IF match.ok
             THEN ResultMetadata(0, NoneInt, ToInt(match.g1), ToInt(match.g2))
             ELSE ResultMetadata(0, NoneInt, NoneInt, NoneInt)
    ELSE IF column_type = VARCHAR
    THEN ResultMetadata(2, 16777216, NoneInt, NoneInt)
    ELSE IF column_type = DOUBLE
    THEN ResultMetadata(1, NoneInt, NoneInt, NoneInt)
    ELSE IF column_type = BOOLEAN_
    THEN ResultMetadata(13, NoneInt, NoneInt, NoneInt)
    ELSE IF column_type = DATE
    THEN ResultMetadata(3, NoneInt, NoneInt, NoneInt)
    ELSE IF column_type \in {TIMESTAMP, TIMESTAMP_NS}
    THEN ResultMetadata(8, NoneInt, 0, 9)
    ELSE Unsupported

\* the list comprehension over the rows: the first row that raises ends it
\* and no list is returned
_describe_as_result_metadata(describe_results) ==
    LET meta == [i \in 1..Len(describe_results) |->
                    as_result_metadata(describe_results[i])]
    IN  IF \E i \in 1..Len(meta) : meta[i].exc # "none"
        THEN [exc |-> "NotImplementedError", meta |-> <<>>]
        ELSE [exc |-> "none", meta |-> meta]

\* describe(command, params): rows are the rows the engine returns for
\* DESCRIBE <command>
Describe(w, command, params, m, rows) ==
    LET p == parse_one(command)
        o == Exec(w, as_describe(p.expression), params, m)
        r == _describe_as_result_metadata(rows)
    IN  IF p.exc # "none"
        THEN [out |-> [Outcome(w) EXCEPT !.exc = p.exc], meta |-> <<>>]
        ELSE IF o.exc # "none"
        THEN [out |-> o, meta |-> <<>>]
        ELSE IF r.exc # "none"
        THEN [out |-> [o EXCEPT !.exc = r.exc], meta |-> <<>>]
        ELSE [out |-> o, meta |-> r.meta]

(***************************************************************************)
(* The state machine.  ret is the record of the last call: op the handler  *)
(* called, dict whether it was given a dictionary for its parameters, res  *)
(* the call's record without the state, rows the rows the engine returned  *)
(* to describe and meta the list describe returned.                        *)
(***************************************************************************)
World == [conn |-> conn, duck |-> duck]

View(out) ==
    [f \in DOMAIN out \ {"conn", "duck"} |-> out[f]]

Ret(op, dict, out, rows, meta) ==
    [op |-> op, dict |-> dict, res |-> View(out), rows |-> rows, meta |-> meta]

\* a catalog DB1 attached to the engine before the connection is made
PreAttached == Attach(EmptyDuck, "DB1").duck

\* the connections FakeSnowflakeConnection(duck_conn, database, schema,
\* create_database, create_schema) makes
Connections ==
    {c \in {Connect(d0, database, schema, create_database, create_schema) :
                d0 \in {EmptyDuck, PreAttached},
                database \in {None, "db1"},
                schema \in {None, "s1"},
                create_database \in BOOLEAN,
                create_schema \in BOOLEAN} : c.ok}

NoTwin == [on |-> FALSE]

\* the record of opening the connection c: create_db_name is the catalog
\* __init__ attached and gave the extension objects
Opened(c) == [Outcome(c) EXCEPT !.create_db_name = c.attached]

Init ==
    \E c \in Connections :
        /\ conn = c.conn
        /\ duck = c.duck
        /\ ret = Ret("connect", FALSE, Opened(c), <<>>, <<>>)
        /\ twin = NoTwin

\* the engine's message is read only when the engine raises
Raised(o) == o.engine_exc # "none" \/ o.ext_exc # "none"
MsgsFor(o) == IF Raised(o) THEN Msgs ELSE {<<"e">>}

\* cursor.execute(command, params) for a command of S and parameters of P
ExecuteOf(S, P) ==
    \E command \in S, params \in P :
        \E m \in MsgsFor(Exec(World, command, params, <<"e">>)) :
            \E o \in {Exec(World, command, params, m)} :
                /\ conn' = o.conn
                /\ duck' = o.duck
                /\ ret' = Ret("execute", IsDict(params), o, <<>>, <<>>)
                /\ UNCHANGED twin

\* cursor.describe(command, params) for a command of S and parameters of P;
\* the engine returns rows of R when it runs the DESCRIBE
DescribeOf(S, P, R) ==
    \E command \in S, params \in P :
        \E d0 \in {Describe(World, command, params, <<"e">>, <<BIGINT>>)} :
            \E m \in MsgsFor(d0.out), rows \in IF d0.out.exc = "none" THEN R ELSE {<<>>} :
                \E r \in {Describe(World, command, params, m, rows)} :
                    /\ conn' = r.out.conn
                    /\ duck' = r.out.duck
                    /\ ret' = Ret("describe", IsDict(params), r.out, rows, r.meta)
                    /\ UNCHANGED twin

\* cursor.executemany(command, seqparams) for a command of S
ExecuteManyOf(S) ==
    \E command \in S, seqparams \in Batches :
        \E m \in MsgsFor(executemany(World, command, seqparams, <<"e">>)) :
            \E o \in {executemany(World, command, seqparams, m)} :
                /\ conn' = o.conn
                /\ duck' = o.duck
                /\ ret' = Ret("executemany", seqparams.tag = "dict", o, <<>>, <<>>)
                /\ UNCHANGED twin

(***************************************************************************)
(* Spec: the three handlers on statements without annotations.             *)
(***************************************************************************)
Commands ==
    UseStatements \cup CreateDatabaseStatements \cup SelectStatements
    \cup PlainCreateTables

Execute == ExecuteOf(Commands, Params)
DescribeCall == DescribeOf(SelectStatements, Params, {<<BIGINT>>, <<BLOB>>})

Next == Execute \/ DescribeCall

Spec == Init /\ [][Next]_vars

(***************************************************************************)
(* SpecDict: the three handlers on queries, with every kind of parameters. *)
(***************************************************************************)
ExecuteQuery == ExecuteOf(SelectStatements, Params)
DescribeQuery == DescribeOf(SelectStatements, Params, {<<BIGINT>>, <<BLOB>>})
ExecuteManyQuery == ExecuteManyOf(SelectStatements)

NextDict == ExecuteQuery \/ DescribeQuery \/ ExecuteManyQuery

SpecDict == Init /\ [][NextDict]_vars

(***************************************************************************)
(* SpecMany: executemany(command, sets) on the session, and on the twin    *)
(* session one execute(command, p) for each p of sets, as a caller would   *)
(* make them: in order, and none after one that raised.  Both start from   *)
(* the same state, which Prepare moves before either begins.               *)
(***************************************************************************)
ManyCommands ==
    {c \in UseStatements : c.ident = "DB2"}
    \cup {c \in CreateDatabaseStatements : c.ident = "db2"}
    \cup {c \in PlainCreateTables : c.table.db = "" \/ (c.table.catalog = "db1" /\ c.replace)}
    \cup {c \in SelectStatements : c.placeholders = 1 /\ c.table.db = ""}

PrepareCommands ==
    {c \in UseStatements : c.ident # "DB2"}
    \cup {c \in CreateDatabaseStatements : c.ident = "db2"}
    \cup {c \in PlainCreateTables : ~c.replace /\ c.table.db = ""}

InitMany ==
    \E c \in Connections, command \in ManyCommands,
       sets \in SeqsOf(Params, 0, MaxBatch), m \in Msgs :
        /\ conn = c.conn
        /\ duck = c.duck
        /\ ret = Ret("connect", FALSE, Outcome(c), <<>>, <<>>)
        /\ twin = [on |-> TRUE, conn |-> c.conn, duck |-> c.duck,
                   command |-> command, sets |-> sets, m |-> m,
                   i |-> 0, res |-> View(Outcome(c))]

Prepare ==
    /\ twin.i = 0
    /\ ret.op # "executemany"
    /\ \E command \in PrepareCommands :
        \E o \in {Exec(World, command, NoParams, twin.m)} :
            /\ o.exc = "none"
            /\ conn' = o.conn
            /\ duck' = o.duck
            /\ ret' = Ret("execute", FALSE, o, <<>>, <<>>)
            /\ twin' = [twin EXCEPT !.conn = o.conn, !.duck = o.duck]

ExecuteManyCall ==
    /\ ret.op # "executemany"
    /\ \E o \in {executemany(World, twin.command,
                             [tag |-> "seq", sets |-> twin.sets], twin.m)} :
           /\ conn' = o.conn
           /\ duck' = o.duck
           /\ ret' = Ret("executemany", FALSE, o, <<>>, <<>>)
           /\ UNCHANGED twin

TwinExecute ==
    /\ twin.i < Len(twin.sets)
    /\ twin.res.exc = "none"
    /\ \E o \in {Exec([conn |-> twin.conn, duck |-> twin.duck], twin.command,
                      twin.sets[twin.i + 1], twin.m)} :
           /\ twin' = [twin EXCEPT !.conn = o.conn, !.duck = o.duck,
                                   !.i = @ + 1, !.res = View(o)]
           /\ UNCHANGED <<conn, duck, ret>>

NextMany == Prepare \/ ExecuteManyCall \/ TwinExecute

SpecMany == InitMany /\ [][NextMany]_vars

(***************************************************************************)
(* SpecComments: execute on the statements that move the session and on    *)
(* CREATE TABLE ... COMMENT = '...'.                                        *)
(***************************************************************************)
ExecuteComment ==
    ExecuteOf(UseStatements \cup CreateDatabaseStatements \cup CommentCreateTables,
              {NoParams})

SpecComments == Init /\ [][ExecuteComment]_vars

(***************************************************************************)
(* SpecLengths: the same with CREATE TABLE (C1 VARCHAR(n), ...).           *)
(***************************************************************************)
ExecuteSized ==
    ExecuteOf(UseStatements \cup CreateDatabaseStatements \cup SizedCreateTables,
              {NoParams})

SpecLengths == Init /\ [][ExecuteSized]_vars

(***************************************************************************)
(* SpecDescribe: describe of a query without a table on a fresh            *)
(* connection, for every list of column types.                             *)
(***************************************************************************)
InitDescribe ==
    LET c == Connect(EmptyDuck, "db1", "s1", TRUE, TRUE)
    IN  /\ conn = c.conn
        /\ duck = c.duck
        /\ ret = Ret("connect", FALSE, Outcome(c), <<>>, <<>>)
        /\ twin = NoTwin

DescribeTypes ==
    DescribeOf({c \in SelectStatements :
                    c.table = NoTable /\ c.placeholders = 0 /\ c.binds},
               {NoParams}, DescribeRows)

SpecDescribe == InitDescribe /\ [][DescribeTypes]_vars

(***************************************************************************)
(* Claims checked under Spec.                                              *)
(***************************************************************************)
\* C1: a call of execute whose statement references a table without a
\* database qualifier, made while database_set is false, raises
\* ProgrammingError 90105 / 22000, makes no engine call and leaves the
\* connection and the engine (with the extension store) as they were.  (The
\* statement is what execute parsed: a text given with dictionary parameters
\* is never parsed, see C4.)
C1_NoDatabaseError ==
    [][(/\ ret'.op \in {"execute", "describe"}
        /\ ret'.res.no_database
        /\ ~conn.database_set)
       => (/\ ret'.res.exc = "ProgrammingError"
           /\ ret'.res.errno = 90105
           /\ ret'.res.sqlstate = "22000"
           /\ ret'.res.calls = 0
           /\ ret'.res.ext_calls = 0
           /\ conn' = conn
           /\ duck' = duck)]_vars

C1_Witness ==
    /\ ret.op = "execute"
    /\ ret.res.no_database
    /\ ~conn.database_set
    /\ conn.database # None
    /\ ret.res.errno = 90105
    /\ ret.res.calls = 0

\* C2: a call of execute whose statement references a table without a schema
\* qualifier, made while database_set is true and schema_set is false, raises
\* ProgrammingError 90106 / 22000 and makes no engine call.
C2_NoSchemaError ==
    [][(/\ ret'.op \in {"execute", "describe"}
        /\ ret'.res.no_schema
        /\ conn.database_set
        /\ ~conn.schema_set)
       => (/\ ret'.res.exc = "ProgrammingError"
           /\ ret'.res.errno = 90106
           /\ ret'.res.sqlstate = "22000"
           /\ ret'.res.calls = 0)]_vars

C2_Witness ==
    /\ ret.op = "execute"
    /\ ret.res.no_schema
    /\ conn.database_set
    /\ ~conn.schema_set
    /\ ret.res.errno = 90106
    /\ ret.res.calls = 0

\* C4: every call of execute, describe or executemany that is given a
\* dictionary for its parameters raises NotImplementedError, makes no engine
\* call and changes nothing.
C4_DictParamsFailFast ==
    [][ret'.dict
       => (/\ ret'.res.exc = "NotImplementedError"
           /\ ret'.res.calls = 0
           /\ conn' = conn
           /\ duck' = duck)]_vars

\* C10: the message of a translated binder or catalog failure is the first
\* line of the engine's message.
C10_FirstLineOnly ==
    ret.res.engine_exc \in {"BinderException", "CatalogException"}
    => ret.res.msg = FirstLine(ret.res.engine_msg)

(***************************************************************************)
(* Claims checked under SpecMany.                                          *)
(***************************************************************************)
\* the twin's caller has made every call it will make
TwinDone == twin.i = Len(twin.sets) \/ twin.res.exc # "none"

\* C3: executemany(command, [p1..pN]) ends in the state in which N calls
\* execute(command, pi), made in order up to the first that raises, end: the
\* same connection, the same engine and extension store, the same error.
C3_ExecuteManyIsSequential ==
    (ret.op = "executemany" /\ TwinDone)
    => (/\ conn = twin.conn
        /\ duck = twin.duck
        /\ ret.res.exc = twin.res.exc
        /\ ret.res.errno = twin.res.errno
        /\ ret.res.sqlstate = twin.res.sqlstate
        /\ ret.res.msg = twin.res.msg)

\* the second of two calls fails after the first changed the engine
C3_Witness ==
    /\ ret.op = "executemany"
    /\ TwinDone
    /\ Len(twin.sets) = 2
    /\ twin.i = 2
    /\ twin.res.exc = "ProgrammingError"
    /\ duck.tables # {}
    /\ duck = twin.duck

(***************************************************************************)
(* Claims checked under SpecComments.                                      *)
(***************************************************************************)
\* the rows of tables_ext under the key the last call wrote its comment to
CommentRows ==
    {r \in duck.tables_ext :
        /\ r.ext_table_catalog = ret.res.catalog
        /\ r.ext_table_schema = ret.res.schema
        /\ r.ext_table_name = ret.res.name}

\* C5: after a successful execute of a DDL that carries a comment, tables_ext
\* holds for the table's key (catalog and schema from the session context
\* when the table gives none) that comment.
C5_StoredCommentIsLatest ==
    (ret.op = "execute" /\ ret.res.exc = "none" /\ ret.res.has_table_comment)
    => (/\ CommentRows # {}
        /\ \A r \in CommentRows : r.comment = ret.res.table_comment)

\* C9 as claimed: every binder or catalog failure of the engine during
\* execute reaches the caller as a ProgrammingError, 2043 / 02000 for the
\* binder and 2003 / 42S02 for the catalog, and never as the engine's own
\* exception.
C9_NoEngineErrorIsRaw ==
    /\ ret.res.exc \notin {"BinderException", "CatalogException"}
    /\ ret.res.engine_exc = "BinderException"
       => (ret.res.exc = "ProgrammingError" /\ ret.res.errno = 2043
           /\ ret.res.sqlstate = "02000")
    /\ ret.res.engine_exc = "CatalogException"
       => (ret.res.exc = "ProgrammingError" /\ ret.res.errno = 2003
           /\ ret.res.sqlstate = "42S02")

\* C9 amended: every binder or catalog failure of the engine call that runs
\* the statement reaches the caller as a ProgrammingError, 2043 / 02000 for
\* the binder and 2003 / 42S02 for the catalog, and these codes are given to
\* no other failure; a failure of a write to the extension store that
\* follows is raised as the engine's own exception.
C9_StatementErrorsTranslated ==
    /\ ret.res.engine_exc = "BinderException"
       <=> (ret.res.exc = "ProgrammingError" /\ ret.res.errno = 2043
            /\ ret.res.sqlstate = "02000")
    /\ ret.res.engine_exc = "CatalogException"
       <=> (ret.res.exc = "ProgrammingError" /\ ret.res.errno = 2003
            /\ ret.res.sqlstate = "42S02")
    /\ ret.res.errno \in {2043, 2003} => ret.res.ext_exc = "none"
    /\ ret.res.ext_exc # "none" => ret.res.exc = ret.res.ext_exc

C9_Witness ==
    /\ ret.op = "execute"
    /\ ret.res.engine_exc = "BinderException"
    /\ ret.res.exc = "ProgrammingError"
    /\ ret.res.errno = 2043
    /\ ret.res.calls = 1

(***************************************************************************)
(* Claims checked under SpecLengths.                                       *)
(***************************************************************************)
\* the rows of columns_ext under the last call's table key for column col
LengthRows(col) ==
    {r \in duck.columns_ext :
        /\ r.ext_table_catalog = ret.res.catalog
        /\ r.ext_table_schema = ret.res.schema
        /\ r.ext_table_name = ret.res.name
        /\ r.ext_column_name = col}

\* C6: after a successful execute that declares a text column of length n,
\* columns_ext holds for that column character_maximum_length = n and
\* character_octet_length = n*4, or 16777216 where n*4 is more; no row of
\* columns_ext has an octet length above 16777216.
C6_ColumnLengths ==
    /\ (ret.op = "execute" /\ ret.res.exc = "none")
       => \A i \in 1..Len(ret.res.text_lengths) :
            LET col == ret.res.text_lengths[i][1]
                n == ret.res.text_lengths[i][2]
            IN  /\ LengthRows(col) # {}
                /\ \A r \in LengthRows(col) :
                    /\ r.ext_character_maximum_length = n
                    /\ r.ext_character_octet_length =
                            IF n * 4 > 16777216 THEN 16777216 ELSE n * 4
    /\ \A r \in duck.columns_ext : r.ext_character_octet_length <= 16777216

\* a VARCHAR(50) column and one whose n*4 passes the cap are in the store
C6_Witness ==
    /\ ret.op = "execute"
    /\ ret.res.exc = "none"
    /\ Len(ret.res.text_lengths) = 2
    /\ \E r \in duck.columns_ext :
        r.ext_character_maximum_length = 50 /\ r.ext_character_octet_length = 200
    /\ \E r \in duck.columns_ext :
        r.ext_character_maximum_length = 4194305
        /\ r.ext_character_octet_length = 16777216

(***************************************************************************)
(* Claims checked under SpecDescribe.                                      *)
(***************************************************************************)
\* the engine's type names by the rows of the mapping table
IntegerTypes == {BIGINT, INTEGER}
DecimalTypes == {DECIMAL_18_3, DECIMAL_38_0}
TableTypes ==
    IntegerTypes \cup DecimalTypes
        \cup {VARCHAR, DOUBLE, BOOLEAN_, DATE, TIMESTAMP, TIMESTAMP_NS}

\* the descriptor the mapping table gives a type name of TableTypes
TableEntry(t) ==
    CASE t \in IntegerTypes -> ResultMetadata(0, NoneInt, 38, 0)
      [] t = DECIMAL_18_3 -> ResultMetadata(0, NoneInt, 18, 3)
      [] t = DECIMAL_38_0 -> ResultMetadata(0, NoneInt, 38, 0)
      [] t = VARCHAR -> ResultMetadata(2, 16777216, NoneInt, NoneInt)
      [] t = DOUBLE -> ResultMetadata(1, NoneInt, NoneInt, NoneInt)
      [] t = BOOLEAN_ -> ResultMetadata(13, NoneInt, NoneInt, NoneInt)
      [] t = DATE -> ResultMetadata(3, NoneInt, NoneInt, NoneInt)
      [] t \in {TIMESTAMP, TIMESTAMP_NS} -> ResultMetadata(8, NoneInt, 0, 9)

\* the engine ran the DESCRIBE of the last call and returned its rows
Described == ret.op = "describe" /\ ret.res.calls = 1 /\ ret.res.engine_exc = "none"

\* C7: describe of a statement whose columns all have types of the mapping
\* table returns one descriptor a column, each the table's entry for the
\* column's type: integer types 0 / 38 / 0, decimal types 0 with the declared
\* (p,s), character types 2 with internal size 16777216, double 1, boolean
\* 13, date 3, TIMESTAMP and TIMESTAMP_NS 8 / 0 / 9.
C7_MappingIsTheTable ==
    (Described /\ \A i \in 1..Len(ret.rows) : ret.rows[i] \in TableTypes)
    => (/\ ret.res.exc = "none"
        /\ Len(ret.meta) = Len(ret.rows)
        /\ \A i \in 1..Len(ret.rows) : ret.meta[i] = TableEntry(ret.rows[i]))

\* C8: describe of a statement with a column, at any position, whose type is
\* outside the mapping table raises NotImplementedError and returns no
\* descriptor.
C8_UnmappedTypeRaises ==
    (Described /\ \E i \in 1..Len(ret.rows) : ret.rows[i] \notin TableTypes)
    => (ret.res.exc = "NotImplementedError" /\ ret.meta = <<>>)

(***************************************************************************)
(* SpecExt: execute on the statements that move the session and create     *)
(* tables with a comment, and FakeSnowflakeConnection's                    *)
(* _create_info_schema_ext called for a catalog.                           *)
(***************************************************************************)
\* catalog has tables_ext, columns_ext and the view columns_snowflake
HasExt(d, catalog) ==
    \A i \in 1..Len(ExtObjects) : <<catalog, ExtObjects[i]>> \in d.ext

ExecuteExt ==
    ExecuteOf(UseStatements \cup CreateDatabaseStatements
                \cup {c \in CommentCreateTables : c.comment = <<"a">>},
              {NoParams})

\* conn._create_info_schema_ext(catalog)
CreateInfoSchemaExt ==
    \E catalog \in {"DB1", "DB2"} :
        \E r \in {_create_info_schema_ext(duck, catalog)} :
            /\ conn' = conn
            /\ duck' = r.duck
            /\ ret' = Ret("_create_info_schema_ext", FALSE,
                          [Outcome(World) EXCEPT !.exc = r.exc, !.ext_exc = r.exc,
                                                 !.create_db_name = catalog],
                          <<>>, <<>>)
            /\ UNCHANGED twin

NextExt == ExecuteExt \/ CreateInfoSchemaExt

SpecExt == Init /\ [][NextExt]_vars

(***************************************************************************)
(* Claims checked under SpecExt.                                           *)
(***************************************************************************)
\* C11: a call of _create_info_schema_ext for a catalog that already has
\* tables_ext, columns_ext and columns_snowflake raises nothing and leaves
\* the engine, with the rows of the extension tables, as it was.
C11_CreateExtIdempotent ==
    [][(/\ ret'.op = "_create_info_schema_ext"
        /\ HasExt(duck, ret'.res.create_db_name))
       => (ret'.res.exc = "none" /\ duck' = duck)]_vars

(***************************************************************************)
(* SpecStore: execute on the statements that move the session and on       *)
(* CREATE TABLE with a comment, with sized columns, or with both.          *)
(***************************************************************************)
StoreComments == SeqsOf({"a"}, 1, MaxCommentLen)

StoreLengths ==
    {<<>>, << <<"C1", 50>> >>, << <<"C1", 4194305>>, <<"C2", 50>> >>}

StoreCreateTables ==
    {CreateTable(t, r, TRUE, c, <<>>) :
        t \in StoreRefs, r \in BOOLEAN, c \in StoreComments}
    \cup {CreateTable(t, r, FALSE, <<>>, l) :
            t \in StoreRefs, r \in BOOLEAN, l \in StoreLengths}
    \cup {CreateTable(t, TRUE, TRUE, c, << <<"C1", 50>> >>) :
            t \in StoreRefs, c \in {<<"a">>, <<"'">>}}

ExecuteStore ==
    ExecuteOf(UseStatements \cup CreateDatabaseStatements \cup StoreCreateTables,
              {NoParams})

SpecStore == Init /\ [][ExecuteStore]_vars

(***************************************************************************)
(* Claims checked under SpecStore.                                         *)
(***************************************************************************)
\* two rows of an extension table with the same table key
SameTable(r1, r2) ==
    /\ r1.ext_table_catalog = r2.ext_table_catalog
    /\ r1.ext_table_schema = r2.ext_table_schema
    /\ r1.ext_table_name = r2.ext_table_name

\* C12: tables_ext holds at most one row for a (catalog, schema, table) and
\* columns_ext at most one row for a (catalog, schema, table, column).
C12_OneRecordPerKey ==
    /\ \A r1, r2 \in duck.tables_ext : SameTable(r1, r2) => r1 = r2
    /\ \A r1, r2 \in duck.columns_ext :
        (SameTable(r1, r2) /\ r1.ext_column_name = r2.ext_column_name) => r1 = r2

\* a statement with one sized column has written C1 again for a table whose
\* C1 and C2 an earlier statement wrote, and the table has a comment
C12_Witness ==
    /\ ret.op = "execute"
    /\ ret.res.exc = "none"
    /\ ret.res.text_lengths = << <<"C1", 50>> >>
    /\ \E r \in LengthRows("C2") : TRUE
    /\ \E r \in LengthRows("C1") : r.ext_character_maximum_length = 50
    /\ CommentRows # {}

(***************************************************************************)
(* SpecSession: the three handlers on a connection opened with any of      *)
(* None, "" or a name for its database and its schema, on the statements   *)
(* that move the session and on some that do not.                          *)
(***************************************************************************)
SessionConnections ==
    {c \in {Connect(d0, database, schema, create_database, create_schema) :
                d0 \in {EmptyDuck, PreAttached},
                database \in {None, "", "db1"},
                schema \in {None, "", "s1"},
                create_database \in BOOLEAN,
                create_schema \in BOOLEAN} : c.ok}

InitSession ==
    \E c \in SessionConnections :
        /\ conn = c.conn
        /\ duck = c.duck
        /\ ret = Ret("connect", FALSE, Opened(c), <<>>, <<>>)
        /\ twin = NoTwin

\* the statements of SpecSession that are no USE
OtherStatements ==
    CreateDatabaseStatements
    \cup {c \in SelectStatements : c.placeholders = 0 /\ c.binds /\ c.table.catalog = ""}

ExecuteSession == ExecuteOf(UseStatements \cup OtherStatements, Params)
DescribeSession ==
    DescribeOf({c \in OtherStatements : c.kind = "SELECT"}, {NoParams}, {<<BIGINT>>})
ExecuteManySession == ExecuteManyOf(UseStatements \cup CreateDatabaseStatements)

NextSession == ExecuteSession \/ DescribeSession \/ ExecuteManySession

SpecSession == InitSession /\ [][NextSession]_vars

(***************************************************************************)
(* Claims checked under SpecSession.                                       *)
(***************************************************************************)
\* the identifiers of the model that are not upper-case
LowerNames == {"db1", "db2", "s1", "t1", "main"}

\* C13: the current database and the current schema of the connection, when
\* present, are upper-case, whether given to the constructor or set by USE
\* DATABASE / USE SCHEMA.
C13_NamesUpperCase ==
    /\ Present(conn.database) => conn.database \notin LowerNames
    /\ Present(conn.schema) => conn.schema \notin LowerNames

\* USE SCHEMA s1 on a connection opened with database db1
C13_Witness ==
    /\ ret.op = "execute"
    /\ ret.res.cmd = "USE SCHEMA"
    /\ ret.res.exc = "none"
    /\ conn.schema = "S1"
    /\ conn.database = "DB1"

\* C14: a call that changes the session context (database, schema,
\* database_set, schema_set) is an execute of a USE DATABASE or USE SCHEMA
\* statement, made by the caller or by executemany: no execute, describe or
\* executemany of another statement changes it, whether it raises or not.
C14_OnlyUseChangesContext ==
    [][conn' # conn
       => \/ ExecuteOf(UseStatements, Params)
          \/ ExecuteManyOf(UseStatements)]_vars

\* CREATE DATABASE ran and left the session where it was
C14_Witness ==
    /\ ret.op = "execute"
    /\ ret.res.cmd = "CREATE DATABASE"
    /\ ret.res.exc = "none"
    /\ "DB2" \in duck.catalogs
    /\ conn.database # "DB2"

(***************************************************************************)
(* Claims about the transform chain, checked under SpecSession.            *)
(***************************************************************************)
\* the place of a pass in a chain
PlaceIn(chain, pass) == CHOOSE i \in 1..Len(chain) : chain[i] = pass

ResolutionPasses == {"set_schema", "create_database"}
SemiStructuredPasses ==
    {"semi_structured_types", "parse_json", "indices_to_array", "indices_to_object",
     "values_columns", "object_construct"}
NumericTemporalPasses ==
    {"to_date", "timestamp_ntz_ns", "float_to_double", "integer_precision"}

\* C15: in a call of execute that reaches the transform chain, the pass
\* upper_case_unquoted_identifiers runs before set_schema and create_database,
\* and every semi-structured rewrite runs before every numeric or temporal
\* normalization.
C15_PassOrder ==
    ret.res.passes # <<>>
    => LET chain == ret.res.passes
       IN  /\ \A p \in ResolutionPasses :
                PlaceIn(chain, "upper_case_unquoted_identifiers") < PlaceIn(chain, p)
           /\ \A p \in SemiStructuredPasses, q \in NumericTemporalPasses :
                PlaceIn(chain, p) < PlaceIn(chain, q)

(***************************************************************************)
(* Claims about the annotations, checked under SpecStore.                  *)
(***************************************************************************)
\* C16: execute consumes the annotations of a statement (create_db_name,
\* table_comment, text_lengths) only after the engine ran the statement
\* without raising, and each with one write; a call in which the engine or
\* the session check raised creates no extension object and writes no row
\* to tables_ext or columns_ext.
C16_ConsumedAfterSuccess ==
    [][ret'.op = "execute"
       => /\ (ret'.res.create_db_name # None \/ ret'.res.ext_calls > 0)
             => (ret'.res.calls = 1 /\ ret'.res.engine_exc = "none")
          /\ ret'.res.ext_calls
                <= (IF ret'.res.has_table_comment THEN 1 ELSE 0)
                    + (IF ret'.res.text_lengths # <<>> THEN 1 ELSE 0)
          /\ (ret'.res.engine_exc # "none" \/ ret'.res.errno \in {90105, 90106})
             => (/\ duck'.ext = duck.ext
                 /\ duck'.tables_ext = duck.tables_ext
                 /\ duck'.columns_ext = duck.columns_ext)]_vars

\* the engine refused a CREATE TABLE for a table that has a row in tables_ext
C16_Witness ==
    /\ ret.op = "execute"
    /\ ret.res.cmd = "CREATE TABLE"
    /\ ret.res.engine_exc = "CatalogException"
    /\ ret.res.ext_calls = 0
    /\ duck.tables_ext # {}

\* C17: when a write to the extension store raises after the engine ran the
\* statement, execute raises that engine exception as it is, with no errno
\* or sqlstate of a translated error, the write was tried once and the
\* engine is as the statement left it.
C17_StoreFailurePropagates ==
    [][(ret'.op = "execute" /\ ret'.res.ext_exc # "none")
       => /\ ret'.res.exc = ret'.res.ext_exc
          /\ ret'.res.errno = 0
          /\ ret'.res.sqlstate = ""
          /\ ret'.res.engine_exc = "none"
          /\ ret'.res.calls = 1
          /\ ret'.res.ext_calls = 1
          /\ \E c \in StoreCreateTables :
                LET r == EngineExecute(duck, Transform(c, conn.database), NoParams)
                IN  r.exc = "none" /\ duck' = r.duck
          /\ \E k \in duck'.tables : k[3] = ret'.res.name]_vars

\* the insert into tables_ext found no such table in the catalog, and the
\* table of the statement is there
C17_Witness ==
    /\ ret.op = "execute"
    /\ ret.res.cmd = "CREATE TABLE"
    /\ ret.res.ext_exc = "CatalogException"
    /\ ret.res.exc = "CatalogException"
    /\ ret.res.errno = 0
    /\ \E k \in duck.tables : k[3] = ret.res.name

\* C18: a catalog attached when the connection was opened or by a CREATE
\* DATABASE statement has tables_ext, columns_ext and columns_snowflake from
\* then on, and no write of a comment or of column lengths into a catalog
\* that has them fails for a missing table.
C18_CreatedCatalogsHaveExt ==
    /\ (ret.op = "connect" /\ ret.res.create_db_name # None)
       => HasExt(duck, ret.res.create_db_name)
    /\ [][/\ \A c \in duck'.catalogs \ duck.catalogs : HasExt(duck', c)
          /\ duck.ext \subseteq duck'.ext
          /\ (ret'.res.ext_calls > 0 /\ HasExt(duck, ret'.res.catalog))
             => ret'.res.ext_exc # "CatalogException"]_vars

\* a comment written into DB2, the catalog of a CREATE DATABASE statement
C18_Witness ==
    /\ ret.op = "execute"
    /\ ret.res.has_table_comment
    /\ ret.res.exc = "none"
    /\ ret.res.catalog = "DB2"
    /\ CommentRows # {}
    /\ HasExt(duck, "DB2")

(***************************************************************************)
(* Further claims checked under SpecSession.                               *)
(***************************************************************************)
\* C19: when database_set is true the current database is a name (not None,
\* not ""), and when schema_set is true the current schema is a name.
C19_SetFlagsImplyNames ==
    /\ conn.database_set => Present(conn.database)
    /\ conn.schema_set => Present(conn.schema)

\* USE DATABASE on a connection opened without a database
C19_Witness ==
    /\ ret.op = "execute"
    /\ ret.res.cmd = "USE DATABASE"
    /\ ret.res.exc = "none"
    /\ conn.database_set
    /\ Present(conn.database)
    /\ ~Present(conn.schema)
    /\ ~conn.schema_set

\* C20: an execute of USE DATABASE or USE SCHEMA for which the engine raises,
\* whatever the exception, leaves the current database, the current schema
\* and both flags as they were.
C20_RejectedUseKeepsContext ==
    [][(/\ ret'.op = "execute"
        /\ ret'.res.cmd \in {"USE DATABASE", "USE SCHEMA"}
        /\ ret'.res.engine_exc # "none")
       => conn' = conn]_vars

\* the engine found no catalog DB2 for USE DATABASE DB2
C20_Witness ==
    /\ ret.op = "execute"
    /\ ret.res.cmd = "USE DATABASE"
    /\ ret.res.engine_exc = "CatalogException"
    /\ ret.res.errno = 2003
    /\ "DB1" \in duck.catalogs
    /\ "DB2" \notin duck.catalogs
    /\ conn.database \in {None, "", "DB1"}

\* C21: database_set and schema_set never go from true to false in any step
\* of a session, and an execute of USE DATABASE that succeeds leaves the
\* current schema name and schema_set exactly as they were.
C21_SetFlagsMonotonic ==
    [][/\ conn.database_set => conn'.database_set
       /\ conn.schema_set => conn'.schema_set
       /\ (/\ ret'.op = "execute"
           /\ ret'.res.cmd = "USE DATABASE"
           /\ ret'.res.exc = "none")
          => /\ conn'.schema = conn.schema
             /\ conn'.schema_set = conn.schema_set]_vars

\* USE DATABASE succeeded in a session that has a current schema
C21_Witness ==
    /\ ret.op = "execute"
    /\ ret.res.cmd = "USE DATABASE"
    /\ ret.res.exc = "none"
    /\ conn.database_set
    /\ conn.schema_set
    /\ conn.schema = "S1"

(***************************************************************************)
(* A further claim checked under Spec.                                     *)
(***************************************************************************)
\* C22: a call whose statement references a table with neither a database
\* nor a schema qualifier, made while database_set and schema_set are both
\* false, raises ProgrammingError 90105 and not 90106; and whenever 90106 is
\* raised, the database condition (no database qualifier and database_set
\* false) did not hold for that call.  The call raises one error, before any
\* engine call.
C22_NoDatabaseHasPriority ==
    [][/\ (/\ ret'.op \in {"execute", "describe"}
           /\ ret'.res.no_database
           /\ ret'.res.no_schema
           /\ ~conn.database_set
           /\ ~conn.schema_set)
          => (/\ ret'.res.exc = "ProgrammingError"
              /\ ret'.res.errno = 90105
              /\ ret'.res.calls = 0)
       /\ (/\ ret'.op \in {"execute", "describe"}
           /\ ret'.res.errno = 90106)
          => (/\ ~(ret'.res.no_database /\ ~conn.database_set)
              /\ ret'.res.no_schema
              /\ ~conn.schema_set
              /\ ret'.res.calls = 0)]_vars

\* both conditions held for the call and the error is the database's
C22_Witness ==
    /\ ret.op = "execute"
    /\ ret.res.no_database
    /\ ret.res.no_schema
    /\ ~conn.database_set
    /\ ~conn.schema_set
    /\ ret.res.exc = "ProgrammingError"
    /\ ret.res.errno = 90105

====
